---- MODULE Spec2Model ----
(***************************************************************************)
(* State-machine model of the block API of i3status-rust (src/blocks.rs):  *)
(* the per-block command buffer and flush, event retrieval, and the        *)
(* recovery wrapper CommonApi::recoverable, together with the renderer     *)
(* that holds the other ends of the channels.                              *)
(*                                                                         *)
(* One step of a block is the code between two await points: the runtime   *)
(* is single threaded and cooperative, so that code runs atomically.       *)
(***************************************************************************)
EXTENDS Naturals, Sequences, FiniteSets, TLC

\* ------------------------------------------------------------- bounds
\* Last instant of the modelled clock.
MaxTime == 1
\* Number of events the renderer delivers in one behaviour.
MaxEvents == 2
\* Capacity of the shared outbound mpsc channel.
ChanCap == 2
\* Capacity of a block's inbound event channel.
EventCap == 1
\* Number of mutator calls the block code makes in one behaviour (ApiSpec).
MaxCalls == 2
\* Number of flush calls the block code makes in one behaviour (ApiSpec).
MaxFlushes == 3
MaxMinutes == 1
MaxPomodoros == 2
MaxWheelUp == 1

\* ------------------------------------------------------------- data model
\* CommonApi::id of the running blocks.
Blocks == {1, 2}
\* The block followed in the specifications of a single block.
Blk == 1

\* CommonApi::error_interval, in clock ticks.
ErrorInterval == 1

\* RequestCmd: a tag and its payload (texts; booleans as "true"/"false").
Cmd(op, args) == [op |-> op, args |-> args]
BoolStr(v) == IF v THEN "true" ELSE "false"

\* Request { block_id, cmds }
Request(id, cmds) == [block_id |-> id, cmds |-> cmds]

\* BlockEvent: Click(I3BarEvent) | UpdateRequest
Click(button) == [kind |-> "Click", button |-> button]
UpdateRequest == [kind |-> "UpdateRequest", button |-> "-"]
Buttons == {"Left", "Middle"}
Events == {Click(b) : b \in Buttons} \cup {UpdateRequest}

\* The renderer is not suspended in a send.
NoSend == [to |-> 0, ev |-> UpdateRequest]

\* Option<String>
None == [some |-> FALSE, val |-> ""]
Some(s) == [some |-> TRUE, val |-> s]
\* Option::unwrap_or_else
UnwrapOrElse(opt, dflt) == IF opt.some THEN opt.val ELSE dflt

\* Result<T>
Ok(v) == [tag |-> "Ok", val |-> v]
Err(e) == [tag |-> "Err", val |-> e]
NoResult == [tag |-> "-", val |-> ""]

\* Outcomes of the wrapped operation f, and the caller-supplied message.
Outcomes == {Ok("v1"), Err("e1"), Err("e2")}
Msg == "msg"
SendError == "Failed to send Request"

VARIABLES
    pc,             \* per block: where its code is suspended
    cmd_buf,        \* CommonApi::cmd_buf
    pending,        \* the Request a suspended flush is sending
    requests,       \* the shared outbound channel (request_sender side)
    requests_open,  \* the renderer still holds the receiving end
    received,       \* the Requests the renderer has received, in order
    inbox,          \* per block: the inbound channel (event_receiver)
    events_open,    \* per block: the renderer still holds the event sender
    focused,        \* recoverable: local `focused`
    been_err,       \* recoverable: local `been_err`
    retry_at,       \* recoverable: local `retry_at`
    op_out,         \* the outcome of the pending / last call of f
    result,         \* value returned by the last API call that returns one
    error_format,   \* CommonApi::error_format
    now,            \* tokio::time::Instant::now()
    calls,          \* history: commands of the block code's mutator calls
    flushes,        \* history: per flush call, the commands called before it
    delivered,      \* history: events the renderer sent to the block
    returned,       \* history: events event() returned
    nfail,          \* history: failures of f in this call of recoverable
    raced,          \* history: a timer branch won while an event was queued
    rsend,          \* renderer: the event send it is suspended in, if any
    inp,            \* the input of the function or entry point under study
    out             \* what that function or entry point has produced

vars == <<pc, cmd_buf, pending, requests, requests_open, received, inbox,
          events_open, focused, been_err, retry_at, op_out, result,
          error_format, now, calls, flushes, delivered, returned, nfail,
          raced, rsend, inp, out>>

\* The variables only the specifications of later sections change.
aux == <<rsend, inp, out>>

\* ------------------------------------------------------------- helpers
RECURSIVE Flatten(_)
Flatten(ss) == IF ss = <<>> THEN <<>> ELSE Head(ss) \o Flatten(Tail(ss))

RECURSIVE SumLen(_)
SumLen(ss) == IF ss = <<>> THEN 0 ELSE Len(Head(ss)) + SumLen(Tail(ss))

IsPrefix(s, t) == Len(s) <= Len(t) /\ s = SubSeq(t, 1, Len(s))

\* The command lists of the Requests of q that carry block id b, in order.
RECURSIVE CmdsOf(_, _)
CmdsOf(q, b) ==
    IF q = <<>> THEN <<>>
    ELSE IF Head(q).block_id = b THEN <<Head(q).cmds>> \o CmdsOf(Tail(q), b)
    ELSE CmdsOf(Tail(q), b)

RECURSIVE Count(_, _)
Count(s, c) ==
    IF s = <<>> THEN 0
    ELSE (IF Head(s) = c THEN 1 ELSE 0) + Count(Tail(s), c)

\* ------------------------------------------------------------- mutators
\* Variant of Push that inserts at the front.
PushFront(buf, c) == <<c>> \o buf

\* SmallVec::push
Push(buf, c) == Append(buf, c)

hide(buf) == Push(buf, Cmd("Hide", <<>>))
show(buf) == Push(buf, Cmd("Show", <<>>))
set_icon_raw(buf, icon) == Push(buf, Cmd("SetIcon", <<icon>>))
set_state(buf, state) == Push(buf, Cmd("SetState", <<state>>))
set_text(buf, text) == Push(buf, Cmd("SetText", <<text>>))
set_texts(buf, full, short) == Push(buf, Cmd("SetTexts", <<full, short>>))
set_values(buf, values) == Push(buf, Cmd("SetValues", <<values>>))
set_format(buf, format) == Push(buf, Cmd("SetFormat", <<format>>))
set_full_screen(buf, value) == Push(buf, Cmd("SetFullScreen", <<BoolStr(value)>>))
preserve(buf) == Push(buf, Cmd("Preserve", <<>>))
restore(buf) == Push(buf, Cmd("Restore", <<>>))

\* A mutator call of the block code, and the texts, icons, states, value
\* maps and formats the block code passes.
Call(fn, args) == [fn |-> fn, args |-> args]
States == {"Idle", "Critical"}

\* The block code calls a mutator: synchronous, between two awaits.
Mutate(b, buf, call) ==
    /\ pc[b] = "ready"
    /\ Len(calls[1]) + Len(calls[2]) < MaxCalls
    /\ cmd_buf' = [cmd_buf EXCEPT ![b] = buf]
    /\ calls' = [calls EXCEPT ![b] = Append(@, call)]
    /\ UNCHANGED <<pc, pending, requests, requests_open, received, inbox,
                   events_open, focused, been_err, retry_at, op_out, result,
                   error_format, now, flushes, delivered, returned, nfail,
                   raced, aux>>

Hide(b) == Mutate(b, hide(cmd_buf[b]), Call("hide", <<>>))
Show(b) == Mutate(b, show(cmd_buf[b]), Call("show", <<>>))
SetIconRaw(b) == Mutate(b, set_icon_raw(cmd_buf[b], "icon"), Call("set_icon_raw", <<"icon">>))
SetState(b) ==
    \E st \in States : Mutate(b, set_state(cmd_buf[b], st), Call("set_state", <<st>>))
SetText(b) == Mutate(b, set_text(cmd_buf[b], "text"), Call("set_text", <<"text">>))
SetTexts(b) ==
    Mutate(b, set_texts(cmd_buf[b], "full", "short"), Call("set_texts", <<"full", "short">>))
SetValues(b) == Mutate(b, set_values(cmd_buf[b], "values"), Call("set_values", <<"values">>))
SetFormat(b) == Mutate(b, set_format(cmd_buf[b], "format"), Call("set_format", <<"format">>))
SetFullScreen(b) ==
    \E v \in BOOLEAN :
        Mutate(b, set_full_screen(cmd_buf[b], v), Call("set_full_screen", <<BoolStr(v)>>))
Preserve(b) == Mutate(b, preserve(cmd_buf[b]), Call("preserve", <<>>))
Restore(b) == Mutate(b, restore(cmd_buf[b]), Call("restore", <<>>))

\* ------------------------------------------------------------- channels
\* Variant of ChanSend that overtakes the messages already queued.
ChanSendFront(q, r) == <<r>> \o q

\* mpsc::Sender::send once there is capacity: the queue is FIFO.
ChanSend(q, r) == Append(q, r)
\* mpsc::Receiver::recv: the oldest message.
ChanFront(q) == Head(q)
ChanRest(q) == Tail(q)

\* flush: std::mem::replace(&mut self.cmd_buf, SmallVec::new()) and the
\* Request built from what was taken.
TakenRequest(b, buf) == Request(b, buf)
\* Variant of BufAfterTake that sends a copy and keeps the buffer.
BufAfterTakeKept(buf) == buf
BufAfterTake(buf) == <<>>

\* The synchronous part of flush for block b whose buffer holds buf: the
\* buffer is swapped and the Request is handed to send; the block suspends
\* at nextpc until the send completes.
FlushStart(b, buf, nextpc) ==
    /\ pending' = [pending EXCEPT ![b] = TakenRequest(b, buf)]
    /\ cmd_buf' = [cmd_buf EXCEPT ![b] = BufAfterTake(buf)]
    /\ pc' = [pc EXCEPT ![b] = nextpc]

\* The block code calls flush: the buffer is swapped at once and the block
\* suspends in send.
Flush(b) ==
    /\ pc[b] = "ready"
    /\ Len(flushes[1]) + Len(flushes[2]) < MaxFlushes
    /\ FlushStart(b, cmd_buf[b], "flush")
    /\ flushes' = [flushes EXCEPT ![b] =
                      Append(@, SubSeq(calls[b], SumLen(@) + 1, Len(calls[b])))]
    /\ UNCHANGED <<requests, requests_open, received, inbox, events_open,
                   focused, been_err, retry_at, op_out, result, error_format,
                   now, calls, delivered, returned, nfail, raced, aux>>

\* Where a completed flush resumes.
AfterFlush(p) ==
    CASE p = "rec_flush" -> "select"
      [] p = "dbus_flush" -> "dbus_wait"
      [] OTHER -> "ready"

\* Variant of FlushSend for an unbounded channel: send never waits for room.
FlushSendUnbounded(b) ==
    /\ pc[b] \in {"flush", "rec_flush", "dbus_flush"}
    /\ requests_open
    /\ requests' = ChanSend(requests, pending[b])
    /\ pc' = [pc EXCEPT ![b] = AfterFlush(pc[b])]
    /\ result' = [result EXCEPT ![b] = IF pc[b] = "flush" THEN Ok("()") ELSE @]
    /\ UNCHANGED <<cmd_buf, pending, requests_open, received, inbox,
                   events_open, focused, been_err, retry_at, op_out,
                   error_format, now, calls, flushes, delivered, returned,
                   nfail, raced, aux>>

\* send(..).await completes: the Request enters the channel.
FlushSend(b) ==
    /\ pc[b] \in {"flush", "rec_flush", "dbus_flush"}
    /\ requests_open
    /\ Len(requests) < ChanCap
    /\ requests' = ChanSend(requests, pending[b])
    /\ pc' = [pc EXCEPT ![b] = AfterFlush(pc[b])]
    /\ result' = [result EXCEPT ![b] = IF pc[b] = "flush" THEN Ok("()") ELSE @]
    /\ UNCHANGED <<cmd_buf, pending, requests_open, received, inbox,
                   events_open, focused, been_err, retry_at, op_out,
                   error_format, now, calls, flushes, delivered, returned,
                   nfail, raced, aux>>

\* Variant of FlushFail that puts the commands of the failed Request back
\* in front of the buffer.
FlushFailRestores(b) ==
    /\ pc[b] \in {"flush", "rec_flush", "dbus_flush"}
    /\ ~requests_open
    /\ pc' = [pc EXCEPT ![b] = IF pc[b] = "rec_flush" THEN "rec_err" ELSE "ready"]
    /\ result' = [result EXCEPT ![b] = Err(SendError)]
    /\ cmd_buf' = [cmd_buf EXCEPT ![b] = pending[b].cmds \o @]
    /\ UNCHANGED <<pending, requests, requests_open, received, inbox,
                   events_open, focused, been_err, retry_at, op_out,
                   error_format, now, calls, flushes, delivered, returned,
                   nfail, raced, aux>>

\* send(..).await fails because the receiver is gone: `?` returns the error
\* from flush, and from recoverable when it was the caller.
FlushFail(b) ==
    /\ pc[b] \in {"flush", "rec_flush", "dbus_flush"}
    /\ ~requests_open
    /\ pc' = [pc EXCEPT ![b] = IF pc[b] = "rec_flush" THEN "rec_err" ELSE "ready"]
    /\ result' = [result EXCEPT ![b] = Err(SendError)]
    /\ UNCHANGED <<cmd_buf, pending, requests, requests_open, received, inbox,
                   events_open, focused, been_err, retry_at, op_out,
                   error_format, now, calls, flushes, delivered, returned,
                   nfail, raced, aux>>

\* ------------------------------------------------------------- recoverable
\* Variant of CollapsedText that ignores error_format.
CollapsedTextMsgOnly(b) == Msg

\* Text of the collapsed degraded display.
CollapsedText(b) == UnwrapOrElse(error_format[b], Msg)

\* Body of the inner loop up to flush: the display for the sub-state.
Redraw(buf, foc, err, b) ==
    IF foc
    THEN set_full_screen(set_text(buf, err), TRUE)
    ELSE set_full_screen(set_text(buf, CollapsedText(b)), FALSE)

\* Variant of OnFirstErr that snapshots on every failure.
OnFirstErrAlways(buf, was_err) == preserve(buf)

\* if !been_err { self.preserve(); }
OnFirstErr(buf, was_err) == IF ~was_err THEN preserve(buf) ELSE buf

\* retry_at = Instant::now() + self.error_interval
RetryAt(t) == t + ErrorInterval

\* Variant of OnSuccess that restores whether or not f ever failed.
OnSuccessAlways(buf, was_err) == restore(set_full_screen(buf, FALSE))

\* if been_err { set_full_screen(false); restore(); }
OnSuccess(buf, was_err) ==
    IF was_err THEN restore(set_full_screen(buf, FALSE)) ELSE buf

\* Variant of NextFocused that never toggles.
NextFocusedStuck(foc, ev) == foc

\* Variant of NextFocused that toggles on a click of any button.
NextFocusedAnyButton(foc, ev) == ~foc

\* if click.button == MouseButton::Left { focused = !focused }
NextFocused(foc, ev) == IF ev.button = "Left" THEN ~foc ELSE foc

\* The block code calls api.recoverable(f, msg): locals are initialised and
\* f is invoked for the first time.
Recoverable(b) ==
    /\ pc[b] = "ready"
    /\ \E o \in Outcomes : op_out' = [op_out EXCEPT ![b] = o]
    /\ pc' = [pc EXCEPT ![b] = "attempt"]
    /\ focused' = [focused EXCEPT ![b] = FALSE]
    /\ been_err' = [been_err EXCEPT ![b] = FALSE]
    /\ nfail' = [nfail EXCEPT ![b] = 0]
    /\ UNCHANGED <<cmd_buf, pending, requests, requests_open, received, inbox,
                   events_open, retry_at, result, error_format, now, calls,
                   flushes, delivered, returned, raced, aux>>

\* f().await is Ok(res).
AttemptOk(b) ==
    /\ pc[b] = "attempt"
    /\ op_out[b].tag = "Ok"
    /\ cmd_buf' = [cmd_buf EXCEPT ![b] = OnSuccess(@, been_err[b])]
    /\ result' = [result EXCEPT ![b] = Ok(op_out[b].val)]
    /\ pc' = [pc EXCEPT ![b] = "rec_ok"]
    /\ UNCHANGED <<pending, requests, requests_open, received, inbox,
                   events_open, focused, been_err, retry_at, op_out,
                   error_format, now, calls, flushes, delivered, returned,
                   nfail, raced, aux>>

\* Variant of OnErr that gives up and returns the error of f.
OnErrGiveUp(b) ==
    /\ been_err' = [been_err EXCEPT ![b] = TRUE]
    /\ retry_at' = retry_at
    /\ pc' = [pc EXCEPT ![b] = "rec_err"]
    /\ result' = [result EXCEPT ![b] = Err(op_out[b].val)]
    /\ UNCHANGED <<pending, cmd_buf>>

\* What recoverable does with a failure of f: it enters the degraded display
\* and suspends in flush.
OnErr(b) ==
    /\ been_err' = [been_err EXCEPT ![b] = TRUE]
    /\ retry_at' = [retry_at EXCEPT ![b] = RetryAt(now)]
    /\ FlushStart(b,
                  Redraw(set_state(show(OnFirstErr(cmd_buf[b], been_err[b])),
                                   "Critical"),
                         focused[b], op_out[b].val, b),
                  "rec_flush")
    /\ UNCHANGED result

\* f().await is Err(err).
AttemptErr(b) ==
    /\ pc[b] = "attempt"
    /\ op_out[b].tag = "Err"
    /\ OnErr(b)
    /\ nfail' = [nfail EXCEPT ![b] = @ + 1]
    /\ UNCHANGED <<requests, requests_open, received, inbox, events_open,
                   focused, op_out, error_format, now, calls, flushes,
                   delivered, returned, raced, aux>>

\* Variant of TimerReady that does not wait for the deadline.
TimerReadyAlways(b) == TRUE

\* sleep_until(retry_at) is ready.
TimerReady(b) == now >= retry_at[b]

\* Variant of InboxAfterTimer in which the abandoned event future has
\* already taken an event out of the channel.
InboxAfterTimerLossy(q) == IF q = <<>> THEN q ELSE Tail(q)

\* select!: the timer branch completes; the inner loop breaks and f is
\* invoked again. The event future is dropped without having received.
InboxAfterTimer(q) == q

SelectTimer(b) ==
    /\ pc[b] \in {"select", "sleep"}
    /\ TimerReady(b)
    /\ \E o \in Outcomes : op_out' = [op_out EXCEPT ![b] = o]
    /\ pc' = [pc EXCEPT ![b] = "attempt"]
    /\ inbox' = [inbox EXCEPT ![b] = InboxAfterTimer(@)]
    /\ raced' = [raced EXCEPT ![b] = @ \/ inbox[b] # <<>>]
    /\ UNCHANGED <<cmd_buf, pending, requests, requests_open, received,
                   events_open, focused, been_err, retry_at, result,
                   error_format, now, calls, flushes, delivered, returned,
                   nfail, aux>>

\* Variant of SelectEvent in which an UpdateRequest leaves the event branch
\* enabled: the select goes on reading events.
SelectEventKeepsReading(b) ==
    /\ pc[b] = "select"
    /\ inbox[b] # <<>>
    /\ LET ev == ChanFront(inbox[b]) IN
        /\ inbox' = [inbox EXCEPT ![b] = ChanRest(@)]
        /\ returned' = [returned EXCEPT ![b] = Append(@, ev)]
        /\ IF ev.kind = "Click"
           THEN /\ focused' = [focused EXCEPT ![b] = NextFocused(@, ev)]
                /\ FlushStart(b,
                              Redraw(cmd_buf[b], NextFocused(focused[b], ev),
                                     op_out[b].val, b),
                              "rec_flush")
           ELSE UNCHANGED <<pc, focused, cmd_buf, pending>>
    /\ UNCHANGED <<requests, requests_open, received, events_open, been_err,
                   retry_at, op_out, result, error_format, now, calls,
                   flushes, delivered,
                   nfail, raced, aux>>

\* select!: self.event() completes with the oldest event. A Click matches
\* the branch pattern, its handler runs and the loop redraws and flushes;
\* an UpdateRequest does not match, which disables the branch: the select
\* goes on waiting for the timer alone.
SelectEvent(b) ==
    /\ pc[b] = "select"
    /\ inbox[b] # <<>>
    /\ LET ev == ChanFront(inbox[b]) IN
        /\ inbox' = [inbox EXCEPT ![b] = ChanRest(@)]
        /\ returned' = [returned EXCEPT ![b] = Append(@, ev)]
        /\ IF ev.kind = "Click"
           THEN /\ focused' = [focused EXCEPT ![b] = NextFocused(@, ev)]
                /\ FlushStart(b,
                              Redraw(cmd_buf[b], NextFocused(focused[b], ev),
                                     op_out[b].val, b),
                              "rec_flush")
           ELSE /\ pc' = [pc EXCEPT ![b] = "sleep"]
                /\ UNCHANGED <<focused, cmd_buf, pending>>
    /\ UNCHANGED <<requests, requests_open, received, events_open, been_err,
                   retry_at, op_out, result, error_format, now, calls,
                   flushes, delivered,
                   nfail, raced, aux>>

\* Variant of SelectPanic that returns the closed channel as an error value.
SelectPanicAsError(b) ==
    /\ pc[b] = "select"
    /\ inbox[b] = <<>>
    /\ ~events_open[b]
    /\ pc' = [pc EXCEPT ![b] = "rec_err"]
    /\ result' = [result EXCEPT ![b] = Err("events stream ended")]
    /\ UNCHANGED <<cmd_buf, pending, requests, requests_open, received, inbox,
                   events_open, focused, been_err, retry_at, op_out,
                   error_format, now, calls, flushes, delivered, returned,
                   nfail, raced, aux>>

\* select!: self.event() finds the channel closed and empty and panics.
SelectPanic(b) ==
    /\ pc[b] = "select"
    /\ inbox[b] = <<>>
    /\ ~events_open[b]
    /\ pc' = [pc EXCEPT ![b] = "panicked"]
    /\ UNCHANGED <<cmd_buf, pending, requests, requests_open, received, inbox,
                   events_open, focused, been_err, retry_at, op_out, result,
                   error_format, now, calls, flushes, delivered, returned,
                   nfail, raced, aux>>

\* ------------------------------------------------------------- event
\* The block code calls api.event() and suspends in recv().await.
Event(b) ==
    /\ pc[b] = "ready"
    /\ pc' = [pc EXCEPT ![b] = "event"]
    /\ UNCHANGED <<cmd_buf, pending, requests, requests_open, received, inbox,
                   events_open, focused, been_err, retry_at, op_out, result,
                   error_format, now, calls, flushes, delivered, returned,
                   nfail, raced, aux>>

\* recv() is Some(event): event() returns it.
EventRecv(b) ==
    /\ pc[b] = "event"
    /\ inbox[b] # <<>>
    /\ inbox' = [inbox EXCEPT ![b] = ChanRest(@)]
    /\ returned' = [returned EXCEPT ![b] = Append(@, ChanFront(inbox[b]))]
    /\ pc' = [pc EXCEPT ![b] = "ready"]
    /\ UNCHANGED <<cmd_buf, pending, requests, requests_open, received,
                   events_open, focused, been_err, retry_at, op_out, result,
                   error_format, now, calls, flushes, delivered, nfail, raced,
                   aux>>

\* recv() is None (the channel is closed and empty): event() panics.
EventPanic(b) ==
    /\ pc[b] = "event"
    /\ inbox[b] = <<>>
    /\ ~events_open[b]
    /\ pc' = [pc EXCEPT ![b] = "panicked"]
    /\ UNCHANGED <<cmd_buf, pending, requests, requests_open, received, inbox,
                   events_open, focused, been_err, retry_at, op_out, result,
                   error_format, now, calls, flushes, delivered, returned,
                   nfail, raced, aux>>

\* ------------------------------------------------------------- environment
\* The clock advances.
Tick ==
    /\ now < MaxTime
    /\ now' = now + 1
    /\ UNCHANGED <<pc, cmd_buf, pending, requests, requests_open, received,
                   inbox, events_open, focused, been_err, retry_at, op_out,
                   result, error_format, calls, flushes, delivered, returned,
                   nfail, raced, aux>>

\* The renderer sends an event to block b.
Deliver(b, ev) ==
    /\ events_open[b]
    /\ Len(inbox[b]) < EventCap
    /\ Len(delivered[b]) < MaxEvents
    /\ inbox' = [inbox EXCEPT ![b] = ChanSend(@, ev)]
    /\ delivered' = [delivered EXCEPT ![b] = Append(@, ev)]
    /\ UNCHANGED <<pc, cmd_buf, pending, requests, requests_open, received,
                   events_open, focused, been_err, retry_at, op_out, result,
                   error_format, now, calls, flushes, returned,
                   nfail, raced, aux>>

\* The renderer receives the oldest Request of the outbound channel.
RendererRecv ==
    /\ requests_open
    /\ requests # <<>>
    /\ received' = Append(received, ChanFront(requests))
    /\ requests' = ChanRest(requests)
    /\ UNCHANGED <<pc, cmd_buf, pending, requests_open, inbox, events_open,
                   focused, been_err, retry_at, op_out, result, error_format,
                   now, calls, flushes, delivered, returned,
                   nfail, raced, aux>>

\* The renderer drops the receiving end of the outbound channel.
CloseRequests ==
    /\ requests_open
    /\ requests_open' = FALSE
    /\ UNCHANGED <<pc, cmd_buf, pending, requests, received, inbox,
                   events_open, focused, been_err, retry_at, op_out, result,
                   error_format, now, calls, flushes, delivered, returned,
                   nfail, raced, aux>>

\* The renderer drops the sender of block b's event channel.
CloseEvents(b) ==
    /\ events_open[b]
    /\ events_open' = [events_open EXCEPT ![b] = FALSE]
    /\ UNCHANGED <<pc, cmd_buf, pending, requests, requests_open, received,
                   inbox, focused, been_err, retry_at, op_out, result,
                   error_format, now, calls, flushes, delivered, returned,
                   nfail, raced, aux>>

\* ------------------------------------------------------------- Spec
\* Mutator calls the block code may have made before it calls recoverable.
PriorCalls == {<<>>, <<Call("hide", <<>>)>>}
PriorBuf(cs) == IF cs = <<>> THEN <<>> ELSE hide(<<>>)

InitChannels ==
    /\ pc = [b \in Blocks |-> "ready"]
    /\ pending = [b \in Blocks |-> Request(b, <<>>)]
    /\ requests = <<>>
    /\ requests_open = TRUE
    /\ received = <<>>
    /\ inbox = [b \in Blocks |-> <<>>]
    /\ events_open = [b \in Blocks |-> TRUE]
    /\ focused = [b \in Blocks |-> FALSE]
    /\ been_err = [b \in Blocks |-> FALSE]
    /\ retry_at = [b \in Blocks |-> 0]
    /\ op_out = [b \in Blocks |-> Ok("v1")]
    /\ result = [b \in Blocks |-> NoResult]
    /\ now = 0
    /\ flushes = [b \in Blocks |-> <<>>]
    /\ delivered = [b \in Blocks |-> <<>>]
    /\ returned = [b \in Blocks |-> <<>>]
    /\ nfail = [b \in Blocks |-> 0]
    /\ raced = [b \in Blocks |-> FALSE]
    /\ rsend = NoSend

InitCommon ==
    /\ InitChannels
    /\ inp = <<>>
    /\ out = <<>>

\* One block about to call recoverable, with or without an error_format.
Init ==
    /\ InitCommon
    /\ \E prior \in PriorCalls :
        /\ cmd_buf = [b \in Blocks |-> IF b = Blk THEN PriorBuf(prior) ELSE <<>>]
        /\ calls = [b \in Blocks |-> IF b = Blk THEN prior ELSE <<>>]
    /\ \E ef \in {None, Some("fmt")} :
        error_format = [b \in Blocks |-> IF b = Blk THEN ef ELSE None]

Next ==
    \/ Recoverable(Blk)
    \/ AttemptOk(Blk)
    \/ AttemptErr(Blk)
    \/ FlushSend(Blk)
    \/ FlushFail(Blk)
    \/ SelectTimer(Blk)
    \/ SelectEvent(Blk)
    \/ SelectPanic(Blk)
    \/ Tick
    \/ \E ev \in Events : Deliver(Blk, ev)
    \/ RendererRecv
    \/ CloseRequests
    \/ CloseEvents(Blk)

Spec == Init /\ [][Next]_vars

\* ------------------------------------------------------------- ApiSpec
\* One block whose code calls mutators and flush in any order, and the
\* renderer.
ApiInit ==
    /\ InitCommon
    /\ cmd_buf = [b \in Blocks |-> <<>>]
    /\ calls = [b \in Blocks |-> <<>>]
    /\ error_format = [b \in Blocks |-> None]

ApiNext ==
    \/ \E b \in {Blk} :
        \/ Hide(b)
        \/ Show(b)
        \/ SetIconRaw(b)
        \/ SetState(b)
        \/ SetText(b)
        \/ SetTexts(b)
        \/ SetValues(b)
        \/ SetFormat(b)
        \/ SetFullScreen(b)
        \/ Preserve(b)
        \/ Restore(b)
        \/ Flush(b)
        \/ FlushSend(b)
        \/ FlushFail(b)
    \/ RendererRecv
    \/ CloseRequests

ApiSpec == ApiInit /\ [][ApiNext]_vars

\* ------------------------------------------------------------- MultiSpec
\* Several blocks, all sending on the shared outbound channel: the code of
\* each calls hide, show and flush in any order.
MultiNext ==
    \/ \E b \in Blocks :
        \/ Hide(b)
        \/ Show(b)
        \/ Flush(b)
        \/ FlushSend(b)
    \/ RendererRecv

MultiSpec == ApiInit /\ [][MultiNext]_vars

\* The recovery wrapper under fair scheduling, for a block that has buffered
\* nothing and has no error_format (neither changes when the wrapper waits
\* or retries): a send completes once the channel has room,
\* the renderer keeps receiving, and select! (which polls its branches in
\* random order) does not starve a timer branch that is ready again and again.
LiveInit ==
    /\ Init
    /\ calls[Blk] = <<>>
    /\ ~error_format[Blk].some

LiveSpec ==
    /\ LiveInit
    /\ [][Next]_vars
    /\ WF_vars(FlushSend(Blk))
    /\ WF_vars(RendererRecv)
    /\ SF_vars(SelectTimer(Blk))

\* ------------------------------------------------------------- WaitSpec
\* A block whose code calls event() any number of times and then
\* recoverable, while the renderer delivers events, receives Requests and
\* may drop the block's event sender.
WaitNext ==
    \/ Event(Blk)
    \/ EventRecv(Blk)
    \/ EventPanic(Blk)
    \/ Recoverable(Blk)
    \/ AttemptOk(Blk)
    \/ AttemptErr(Blk)
    \/ FlushSend(Blk)
    \/ SelectTimer(Blk)
    \/ SelectEvent(Blk)
    \/ SelectPanic(Blk)
    \/ Tick
    \/ \E ev \in Events : Deliver(Blk, ev)
    \/ RendererRecv
    \/ CloseEvents(Blk)

WaitSpec == LiveInit /\ [][WaitNext]_vars

\* ------------------------------------------------------------- StallSpec
\* Several blocks that flush and may or may not call event(), and a renderer
\* that is one task of the same executor: it receives Requests and sends
\* events, and while it is suspended in a send to a full event channel it
\* does nothing else. rsend is the send the renderer is suspended in.

\* Flushes enough to fill the outbound channel and suspend every block.
StallFlushes == ChanCap + Cardinality(Blocks)

\* The block code calls flush, as Flush(b), up to StallFlushes times overall.
StallFlush(b) ==
    /\ pc[b] = "ready"
    /\ Len(flushes[1]) + Len(flushes[2]) < StallFlushes
    /\ FlushStart(b, cmd_buf[b], "flush")
    /\ flushes' = [flushes EXCEPT ![b] = Append(@, <<>>)]
    /\ UNCHANGED <<requests, requests_open, received, inbox, events_open,
                   focused, been_err, retry_at, op_out, result, error_format,
                   now, calls, delivered, returned, nfail, raced, aux>>

\* The renderer sends ev to block b and the channel has room.
RendererSend(b, ev) ==
    /\ rsend = NoSend
    /\ Deliver(b, ev)

\* The renderer sends ev to block b, whose channel is full: it suspends.
RendererBlocked(b, ev) ==
    /\ rsend = NoSend
    /\ events_open[b]
    /\ Len(inbox[b]) >= EventCap
    /\ Len(delivered[b]) < MaxEvents
    /\ rsend' = [to |-> b, ev |-> ev]
    /\ UNCHANGED <<pc, cmd_buf, pending, requests, requests_open, received,
                   inbox, events_open, focused, been_err, retry_at, op_out,
                   result, error_format, now, calls, flushes, delivered,
                   returned, nfail, raced, inp, out>>

\* The channel the renderer waits for has room again: its send completes.
RendererResume ==
    /\ rsend # NoSend
    /\ Len(inbox[rsend.to]) < EventCap
    /\ inbox' = [inbox EXCEPT ![rsend.to] = ChanSend(@, rsend.ev)]
    /\ delivered' = [delivered EXCEPT ![rsend.to] = Append(@, rsend.ev)]
    /\ rsend' = NoSend
    /\ UNCHANGED <<pc, cmd_buf, pending, requests, requests_open, received,
                   events_open, focused, been_err, retry_at, op_out, result,
                   error_format, now, calls, flushes, returned, nfail, raced,
                   inp, out>>

\* The renderer, not suspended in a send, receives a Request.
StallRecv ==
    /\ rsend = NoSend
    /\ RendererRecv

StallNext ==
    \/ \E b \in Blocks :
        \/ StallFlush(b)
        \/ FlushSend(b)
        \/ Event(b)
        \/ EventRecv(b)
        \/ RendererSend(b, UpdateRequest)
        \/ RendererBlocked(b, UpdateRequest)
    \/ RendererResume
    \/ StallRecv

StallSpec == ApiInit /\ [][StallNext]_vars

\* ------------------------------------------------------------- ParseSpec
\* The blocks of define_blocks! that carry no cfg attribute.
AlwaysBlocks ==
    {"apt", "backlight", "battery", "bluetooth", "cpu", "custom",
     "custom_dbus", "disk_space", "dnf", "docker", "external_ip",
     "focused_window", "github", "hueshift", "kdeconnect", "load", "menu",
     "memory", "music", "net", "notify", "nvidia_gpu", "pacman", "pomodoro",
     "rofication", "sound", "speedtest", "keyboard_layout", "taskwarrior",
     "temperature", "time", "toggle", "uptime", "watson", "weather",
     "xrandr"}

\* The blocks under #[cfg(feature = ...)], and the feature of each.
GatedBlocks == {"maildir", "notmuch"}
Feature(block) == block
Features == {Feature(block) : block \in GatedBlocks}

\* The variants BlockType has in a build with the given features.
Compiled(features) ==
    AlwaysBlocks \cup {block \in GatedBlocks : Feature(block) \in features}

\* Variant of visit_str without the #[cfg(not(..))] arms.
visit_strNoCfgArm(features, v) ==
    IF v \in Compiled(features)
    THEN Ok(v)
    ELSE Err(<<"Unknown block '", v, "'">>)

\* Visitor::visit_str in a build with the given features; a message is the
\* sequence of the pieces format! joins.
visit_str(features, v) ==
    IF v \in Compiled(features)
    THEN Ok(v)
    ELSE IF v \in GatedBlocks
         THEN Err(<<"Block '", v, "' has to be enabled at the compile time">>)
         ELSE Err(<<"Unknown block '", v, "'">>)

\* The strings parsed: every block name, the block commented out of the
\* list, names in another case, with a blank, cut short, and the empty one.
KindStrings ==
    AlwaysBlocks \cup GatedBlocks
        \cup {"networkmanager", "Cpu", "MAILDIR", "Notmuch", "cpu ", "mail", ""}

\* The channels and buffers of blocks that do nothing.
InitIdle ==
    /\ InitChannels
    /\ cmd_buf = [b \in Blocks |-> <<>>]
    /\ calls = [b \in Blocks |-> <<>>]
    /\ error_format = [b \in Blocks |-> None]

ParseInit ==
    /\ InitIdle
    /\ inp \in [features : SUBSET Features, v : KindStrings]
    /\ out = <<>>

\* BlockType is deserialized from the string inp.v.
Deserialize ==
    /\ out = <<>>
    /\ out' = <<visit_str(inp.features, inp.v)>>
    /\ UNCHANGED <<pc, cmd_buf, pending, requests, requests_open, received,
                   inbox, events_open, focused, been_err, retry_at, op_out,
                   result, error_format, now, calls, flushes, delivered,
                   returned, nfail, raced, rsend, inp>>

ParseNext == Deserialize

ParseSpec == ParseInit /\ [][ParseNext]_vars

\* ------------------------------------------------------------- RunSpec
\* Result::in_block of crate::errors: an error gets the block's kind and id
\* attached, a success is returned as it is.
in_block(e, block, id) ==
    IF e.tag = "Err"
    THEN Err([error |-> e.val, block |-> <<block, id>>])
    ELSE e

\* Variant of run_output that attaches the kind but not the block's id.
run_outputNoId(self, id, e) == in_block(e, self, 0)

\* The closure BlockType::run maps over the entry point's future:
\* |e| e.in_block(self, id).
run_output(self, id, e) == in_block(e, self, id)

\* The ids a block is created with or may write into the pub field api.id.
Ids == {0} \cup Blocks
Configs == {"cfg1", "cfg2"}

RunInit ==
    /\ InitIdle
    /\ inp \in [self : Compiled(Features), config : Configs, id : Ids]
    /\ out = <<>>

\* BlockType::run(self, config, api): id is copied from api.id, then config
\* and api move into the entry point of the kind self.
Run ==
    /\ out = <<>>
    /\ out' = <<[at |-> "running", id |-> inp.id, entry |-> inp.self,
                 config |-> inp.config, api_id |-> inp.id,
                 ended |-> NoResult, surfaced |-> NoResult]>>
    /\ UNCHANGED <<pc, cmd_buf, pending, requests, requests_open, received,
                   inbox, events_open, focused, been_err, retry_at, op_out,
                   result, error_format, now, calls, flushes, delivered,
                   returned, nfail, raced, rsend, inp>>

\* The entry point owns the api and writes its id field.
EntryWritesId(i) ==
    /\ out # <<>>
    /\ out[1].at = "running"
    /\ out[1].api_id # i
    /\ out' = <<[out[1] EXCEPT !.api_id = i]>>
    /\ UNCHANGED <<pc, cmd_buf, pending, requests, requests_open, received,
                   inbox, events_open, focused, been_err, retry_at, op_out,
                   result, error_format, now, calls, flushes, delivered,
                   returned, nfail, raced, rsend, inp>>

\* The entry point's future completes with e; the mapped future completes
\* with the closure's value.
EntryEnds(e) ==
    /\ out # <<>>
    /\ out[1].at = "running"
    /\ out' = <<[out[1] EXCEPT !.at = "done", !.ended = e,
                    !.surfaced = run_output(inp.self, out[1].id, e)]>>
    /\ UNCHANGED <<pc, cmd_buf, pending, requests, requests_open, received,
                   inbox, events_open, focused, been_err, retry_at, op_out,
                   result, error_format, now, calls, flushes, delivered,
                   returned, nfail, raced, rsend, inp>>

RunNext ==
    \/ Run
    \/ \E i \in Ids : EntryWritesId(i)
    \/ \E e \in {Ok("()"), Err("e1"), Err("e2")} : EntryEnds(e)

RunSpec == RunInit /\ [][RunNext]_vars

\* ------------------------------------------------------------- IconSpec
\* SharedConfig::get_icon of crate::config: the theme's value of a name it
\* knows, an error for any other name. A theme is a function from the names
\* it knows to their values.
shared_get_icon(theme, icon) ==
    IF icon \in DOMAIN theme THEN Ok(theme[icon]) ELSE Err("icon not found")

\* CommonApi::get_icon
get_icon(theme, icon) == shared_get_icon(theme, icon)

\* What a call of set_icon leaves: its result, the buffer, and the names it
\* looked up in the theme.
IconCall(res, buf, lookups) == [res |-> res, buf |-> buf, lookups |-> lookups]

\* Variant of set_icon that looks the empty name up like any other.
set_iconLookupEmpty(buf, theme, icon) ==
    LET r == get_icon(theme, icon)
    IN IF r.tag = "Err"
       THEN IconCall(r, buf, <<icon>>)
       ELSE IconCall(Ok("()"), Push(buf, Cmd("SetIcon", <<r.val>>)), <<icon>>)

\* CommonApi::set_icon
set_icon(buf, theme, icon) ==
    IF icon = ""
    THEN IconCall(Ok("()"), Push(buf, Cmd("SetIcon", <<"">>)), <<>>)
    ELSE LET r == get_icon(theme, icon)
         IN IF r.tag = "Err"
            THEN IconCall(r, buf, <<icon>>)
            ELSE IconCall(Ok("()"), Push(buf, Cmd("SetIcon", <<r.val>>)),
                          <<icon>>)

\* The names the block code passes, and the themes: every choice of known
\* names, the empty name among them.
IconNames == {"", "cpu", "pomodoro"}
IconValue(name) ==
    CASE name = "" -> "EMPTY"
      [] name = "cpu" -> "CPU"
      [] name = "pomodoro" -> "POMODORO"
Themes == {[name \in known |-> IconValue(name)] : known \in SUBSET IconNames}

IconInit ==
    /\ InitIdle
    /\ inp \in Themes
    /\ out = <<>>

\* The block code calls set_icon(icon); out keeps what each call left.
SetIcon(b, icon) ==
    /\ pc[b] = "ready"
    /\ Len(calls[b]) + Len(out) < MaxCalls
    /\ LET r == set_icon(cmd_buf[b], inp, icon)
       IN /\ cmd_buf' = [cmd_buf EXCEPT ![b] = r.buf]
          /\ out' = Append(out, [icon |-> icon, res |-> r.res,
                                 lookups |-> r.lookups])
    /\ UNCHANGED <<pc, pending, requests, requests_open, received, inbox,
                   events_open, focused, been_err, retry_at, op_out, result,
                   error_format, now, calls, flushes, delivered, returned,
                   nfail, raced, rsend, inp>>

IconNext ==
    \/ Hide(Blk)
    \/ \E icon \in IconNames : SetIcon(Blk, icon)

IconSpec == IconInit /\ [][IconNext]_vars

\* ------------------------------------------------------------- DbusSpec
DbusError == "Failed to get dbus connection"

\* A oneshot channel whose sender travels in a command, as its receiver
\* finds it: open (nothing to receive yet), answered with val, or closed
\* (the sender was dropped without an answer).
Oneshot(name) == [name |-> name, state |-> "open", val |-> NoResult]
OneshotNames == <<"ch1", "ch2", "ch3">>

\* Variant of recv_result that reports a dropped sender as a send failure.
recv_resultAsSendError(ch) ==
    IF ch.state = "closed" THEN Err(SendError) ELSE ch.val

\* receiver.await.ok().error("Failed to get dbus connection")? : the answer
\* itself, or the error when the sender was dropped.
recv_result(ch) ==
    IF ch.state = "closed" THEN Err(DbusError) ELSE ch.val

\* The oneshot of the call in progress or last made.
Last(chs) == chs[Len(chs)]
SetLast(chs, ch) == [chs EXCEPT ![Len(chs)] = ch]

\* get_dbus_connection / get_system_dbus_connection up to the first await:
\* a new oneshot, the command carrying its sender, and the start of flush.
GetConnection(b, op) ==
    /\ pc[b] = "ready"
    /\ Len(out) < MaxCalls
    /\ LET name == OneshotNames[Len(out) + 1]
       IN /\ out' = Append(out, Oneshot(name))
          /\ FlushStart(b, Push(cmd_buf[b], Cmd(op, <<name>>)), "dbus_flush")
    /\ calls' = [calls EXCEPT ![b] = Append(@, Call(op, <<>>))]
    /\ UNCHANGED <<requests, requests_open, received, inbox, events_open,
                   focused, been_err, retry_at, op_out, result, error_format,
                   now, flushes, delivered, returned, nfail, raced, rsend,
                   inp>>

GetDbusConnection(b) == GetConnection(b, "GetDbusConnection")
GetSystemDbusConnection(b) == GetConnection(b, "GetSystemDbusConnection")

\* The flush inside the call completed: the sender is with the renderer.
DbusFlushSend(b) ==
    /\ pc[b] = "dbus_flush"
    /\ FlushSend(b)

\* The flush inside the call failed: `?` returns its error from the call;
\* the Request, and the sender in it, are dropped.
DbusFlushFail(b) ==
    /\ pc[b] = "dbus_flush"
    /\ FlushFail(b)

\* receiver.await completes, with an answer or because the sender is gone.
DbusRecv(b) ==
    /\ pc[b] = "dbus_wait"
    /\ Last(out).state # "open"
    /\ result' = [result EXCEPT ![b] = recv_result(Last(out))]
    /\ pc' = [pc EXCEPT ![b] = "ready"]
    /\ UNCHANGED <<cmd_buf, pending, requests, requests_open, received, inbox,
                   events_open, focused, been_err, retry_at, op_out,
                   error_format, now, calls, flushes, delivered, returned,
                   nfail, raced, aux>>

\* The renderer answers the connection request it received.
RendererReply(v) ==
    /\ requests_open
    /\ requests = <<>>
    /\ out # <<>>
    /\ Last(out).state = "open"
    /\ pc[Blk] = "dbus_wait"
    /\ out' = SetLast(out, [Last(out) EXCEPT !.state = "answered", !.val = v])
    /\ UNCHANGED <<pc, cmd_buf, pending, requests, requests_open, received,
                   inbox, events_open, focused, been_err, retry_at, op_out,
                   result, error_format, now, calls, flushes, delivered,
                   returned, nfail, raced, rsend, inp>>

\* The sender the renderer was sent is dropped without an answer.
RendererDropSender ==
    /\ out # <<>>
    /\ Last(out).state = "open"
    /\ pc[Blk] = "dbus_wait"
    /\ out' = SetLast(out, [Last(out) EXCEPT !.state = "closed"])
    /\ UNCHANGED <<pc, cmd_buf, pending, requests, requests_open, received,
                   inbox, events_open, focused, been_err, retry_at, op_out,
                   result, error_format, now, calls, flushes, delivered,
                   returned, nfail, raced, rsend, inp>>

DbusNext ==
    \/ GetDbusConnection(Blk)
    \/ GetSystemDbusConnection(Blk)
    \/ DbusFlushSend(Blk)
    \/ DbusFlushFail(Blk)
    \/ DbusRecv(Blk)
    \/ RendererRecv
    \/ \E v \in {Ok("connection"), Err("no bus")} : RendererReply(v)
    \/ RendererDropSender
    \/ CloseRequests

DbusSpec == ApiInit /\ [][DbusNext]_vars

\* ------------------------------------------------------------- ConfigSpec
\* toml::Value: an integer, a string, or a table taken as a whole.
Int(n) == [ty |-> "integer", int |-> n, str |-> ""]
Str(t) == [ty |-> "string", int |-> 0, str |-> t]
Tbl(t) == [ty |-> "table", int |-> 0, str |-> t]

\* A raw document: a table, with its entries, or a value of another type.
Table(entries) == [is_table |-> TRUE, entries |-> entries]
NotATable == [is_table |-> FALSE, entries |-> <<>>]

\* CommonConfig::new, const FIELDS
FIELDS ==
    <<"block", "click", "signal", "theme_overrides", "icons_format",
      "error_interval", "error_format">>
Recognized == {FIELDS[i] : i \in 1..Len(FIELDS)}

\* CommonConfig::default_error_interval
default_error_interval == 5

\* ClickHandler::default() of crate::click: no handlers.
ClickHandlerDefault == Tbl("")

\* Option<T>::deserialize of a present entry, and #[serde(default)] of a
\* missing one.
OptionField(table, field) ==
    IF field \in DOMAIN table THEN Some(table[field]) ELSE None

\* Variant of deserialize without the serde defaults: every field is
\* required.
deserializeNoDefaults(table) ==
    IF DOMAIN table # Recognized
    THEN Err(<<"missing field ", "">>)
    ELSE Ok([block |-> table["block"].str,
             click |-> table["click"],
             signal |-> Some(table["signal"]),
             icons_format |-> Some(table["icons_format"]),
             theme_overrides |-> Some(table["theme_overrides"]),
             error_interval |-> table["error_interval"].int,
             error_format |-> Some(table["error_format"])])

\* The derived CommonConfig::deserialize of a table of recognized entries,
\* in a build with every feature: an entry of the wrong type or naming no
\* block fails first, then a missing field without a default fails, else
\* missing fields take their defaults.
deserialize(table) ==
    IF "block" \in DOMAIN table /\ table["block"].ty # "string"
    THEN Err(<<"invalid type: ", table["block"].ty, ", expected a block name">>)
    ELSE IF "block" \in DOMAIN table
            /\ visit_str(Features, table["block"].str).tag = "Err"
    THEN visit_str(Features, table["block"].str)
    ELSE IF "error_interval" \in DOMAIN table
            /\ table["error_interval"].ty # "integer"
    THEN Err(<<"invalid type: ", table["error_interval"].ty, ", expected u64">>)
    ELSE IF "block" \notin DOMAIN table
    THEN Err(<<"missing field ", "block">>)
    ELSE Ok([block |-> visit_str(Features, table["block"].str).val,
             click |-> IF "click" \in DOMAIN table
                       THEN table["click"] ELSE ClickHandlerDefault,
             signal |-> OptionField(table, "signal"),
             icons_format |-> OptionField(table, "icons_format"),
             theme_overrides |-> OptionField(table, "theme_overrides"),
             error_interval |-> IF "error_interval" \in DOMAIN table
                                THEN table["error_interval"].int
                                ELSE default_error_interval,
             error_format |-> OptionField(table, "error_format")])

\* CommonConfig::new: the entries the loop moves into common_table.
common_table(from) ==
    IF from.is_table
    THEN [f \in Recognized \cap DOMAIN from.entries |-> from.entries[f]]
    ELSE <<>>

\* Variant of Remaining that copies the entries and removes none.
RemainingKeepsAll(from) == from

\* CommonConfig::new: the document the loop leaves behind.
Remaining(from) ==
    IF from.is_table
    THEN Table([f \in DOMAIN from.entries \ Recognized |-> from.entries[f]])
    ELSE from

\* The values a document may hold under each name: well-formed ones, a
\* block that does not exist, and entries of the wrong type.
EntryValues(field) ==
    CASE field = "block" -> {Str("cpu"), Str("nope"), Int(1)}
      [] field = "click" -> {Tbl("click")}
      [] field = "signal" -> {Int(10)}
      [] field = "theme_overrides" -> {Tbl("overrides")}
      [] field = "icons_format" -> {Str("icons")}
      [] field = "error_interval" -> {Int(10), Str("ten")}
      [] field = "error_format" -> {Str("fmt")}
      [] field = "path" -> {Str("/")}
      [] field = "interval" -> {Int(20)}
Unrelated == {"path", "interval"}
Absent == [ty |-> "absent", int |-> 0, str |-> ""]
\* The table with block b and error_interval e, unless Absent, and the one
\* value of each name in names.
TableOf(b, e, names) ==
    Table([f \in names \cup (IF b = Absent THEN {} ELSE {"block"})
                      \cup (IF e = Absent THEN {} ELSE {"error_interval"}) |->
             CASE f = "block" -> b
               [] f = "error_interval" -> e
               [] OTHER -> CHOOSE v \in EntryValues(f) : TRUE])
Documents ==
    {NotATable} \cup
    {TableOf(b, e, names) :
        b \in EntryValues("block") \cup {Absent},
        e \in EntryValues("error_interval") \cup {Absent},
        names \in SUBSET ((Recognized \cup Unrelated) \ {"block", "error_interval"})}

ConfigInit ==
    /\ InitIdle
    /\ inp \in Documents
    /\ out = <<>>

\* CommonConfig::new(&mut from): out keeps the document as it is left, the
\* table that was deserialized and the result.
New ==
    /\ out = <<>>
    /\ out' = <<[from |-> Remaining(inp), common |-> common_table(inp),
                 res |-> deserialize(common_table(inp))]>>
    /\ UNCHANGED <<pc, cmd_buf, pending, requests, requests_open, received,
                   inbox, events_open, focused, been_err, retry_at, op_out,
                   result, error_format, now, calls, flushes, delivered,
                   returned, nfail, raced, rsend, inp>>

ConfigNext == New

ConfigSpec == ConfigInit /\ [][ConfigNext]_vars

\* ------------------------------------------------------------- PomodoroSpec
\* blocks/pomodoro.rs, run and Block::run_pomodoro. inp holds block_config.
\* out holds the block code's position (at) and its variables: the prompt
\* read_params is at and its number, the parameters read, the countdown the
\* run is in or last was in (phase), the loop index pomodoro, timer.elapsed()
\* and the time left of the current sleep, both in halves of a sleep,
\* whether the event branch of the current select! is disabled, widget.state
\* and the text last set. by tells how the current position was entered,
\* tasks and breaks count the timers the current run has started, res is the
\* result of run.

\* sleep(Duration::from_secs(10))
SleepSecs == 10

\* read_params: the numbers the three prompts start from.
DefaultTaskLen == 25
DefaultBreakLen == 5
DefaultPomodoros == 4

\* The buttons and events the pomodoro block tells apart.
PomButtons == {"Left", "Middle", "WheelUp", "WheelDown"}
PomEvents == {Click(b) : b \in PomButtons} \cup {UpdateRequest}

TaskText(pomodoro, left) ==
    [bars |-> pomodoro, min |-> (left + 59) \div 60, msg |-> ""]
BreakText(left) ==
    [bars |-> 0, min |-> (left + 59) \div 60, msg |-> "Break:"]
MessageText(m) == [bars |-> 0, min |-> 0, msg |-> m]
\* format!("{msg} {number}")
PromptText(m, number) == [bars |-> 0, min |-> number, msg |-> m]

PomConfigs ==
    [message : {"Pomodoro over! Take a break!"},
     break_message : {"Break over! Time to work!"},
     notify_cmd : {None, Some("notify")},
     blocking_cmd : BOOLEAN]

\* `?` on an error: run returns it.
PomFailed(st, e) == [st EXCEPT !.at = "failed", !.res = Err(e)]

\* The top of the loop of run: the collapsed block is sent and the block
\* waits for a left click.
Idle(st, cause) ==
    [st EXCEPT !.at = "idle", !.state = "Idle", !.text = MessageText(""),
               !.by = cause, !.phase = "task", !.pomodoro = 0, !.elapsed = 0,
               !.sleep_left = 0, !.ev_off = FALSE]

\* run_pomodoro returns Ok(()): run goes round its loop.
PomDone(st, cause) == Idle(st, cause)

\* "Show break message" / "Show task message": the state and text are set;
\* then the block awaits the blocking command, or is about to spawn the
\* command, or waits for a click.
ShowMessage(cfg, st) ==
    [st EXCEPT !.state = "Good",
               !.text = MessageText(IF st.phase = "task" THEN cfg.message
                                    ELSE cfg.break_message),
               !.ev_off = FALSE,
               !.sleep_left = 0,
               !.by = "timer",
               !.at = IF cfg.notify_cmd.some
                      THEN (IF cfg.blocking_cmd THEN "cmd" ELSE "spawn")
                      ELSE "message"]

\* One pass of a timer loop from its top: leave it when the time is up, else
\* set the text and wait in select! with a new sleep.
Countdown(cfg, st) ==
    LET len == 60 * (IF st.phase = "task" THEN st.task_len ELSE st.break_len)
        elapsed == (SleepSecs * st.elapsed) \div 2
    IN IF elapsed >= len
       THEN ShowMessage(cfg, st)
       ELSE [st EXCEPT !.at = "countdown",
                       !.ev_off = FALSE,
                       !.sleep_left = 2,
                       !.text = IF st.phase = "task"
                                THEN TaskText(st.pomodoro, len - elapsed)
                                ELSE BreakText(len - elapsed)]

\* "Task timer" and "Break timer"
StartTask(cfg, st) ==
    Countdown(cfg, [st EXCEPT !.phase = "task", !.state = "Idle",
                              !.elapsed = 0, !.tasks = @ + 1])
StartBreak(cfg, st) ==
    Countdown(cfg, [st EXCEPT !.phase = "break", !.elapsed = 0,
                              !.breaks = @ + 1])

\* Variant of Proceed with a break after the last pomodoro too.
ProceedAlwaysBreak(cfg, st, cause) ==
    IF st.phase = "task"
    THEN StartBreak(cfg, [st EXCEPT !.by = cause])
    ELSE IF st.pomodoro + 1 < st.pomodoros
         THEN StartTask(cfg, [st EXCEPT !.pomodoro = @ + 1, !.by = cause])
         ELSE PomDone(st, cause)

\* What follows the wait on a message: no break after the last pomodoro,
\* else the break timer; after a break the next pomodoro of the for loop.
Proceed(cfg, st, cause) ==
    IF st.phase = "task"
    THEN IF st.pomodoro = st.pomodoros - 1
         THEN PomDone(st, cause)
         ELSE StartBreak(cfg, [st EXCEPT !.by = cause])
    ELSE IF st.pomodoro + 1 < st.pomodoros
         THEN StartTask(cfg, [st EXCEPT !.pomodoro = @ + 1, !.by = cause])
         ELSE PomDone(st, cause)

\* Variant of ClickMatches that takes a click of any button.
ClickMatchesAny(ev, button) == ev.kind = "Click"

\* wait_for_click: `if let Click(click) = ..` and `click.button == button`.
ClickMatches(ev, button) == ev.kind = "Click" /\ ev.button = button

\* Variant of EndsRun that lets no click end the run.
EndsRunNever(ev) == FALSE

\* The select! of a timer loop: `click.button == MouseButton::Middle`.
EndsRun(ev) == ev.kind = "Click" /\ ev.button = "Middle"

\* read_params: the message and first number of prompt i.
PromptMsg(i) ==
    CASE i = 1 -> "Task length:"
      [] i = 2 -> "Break length:"
      [] i = 3 -> "Pomodoros:"
PromptDefault(i) ==
    CASE i = 1 -> DefaultTaskLen
      [] i = 2 -> DefaultBreakLen
      [] i = 3 -> DefaultPomodoros

\* read_params is called: the parameters and the record of the run before
\* are gone.
ReadParams(st) ==
    [st EXCEPT !.task_len = 0, !.break_len = 0, !.pomodoros = 0,
               !.tasks = 0, !.breaks = 0, !.by = "-"]

\* read_u64 is called for prompt i: the text is set and the block waits.
Prompt(st, i, number) ==
    [st EXCEPT !.at = "prompt", !.prompt = i, !.number = number,
               !.text = PromptText(PromptMsg(i), number)]

\* read_u64: the match on click.button.
NextNumber(number, ev) ==
    IF ev.kind # "Click" THEN number
    ELSE CASE ev.button = "WheelUp" -> number + 1
           [] ev.button = "WheelDown" -> IF number = 0 THEN 0 ELSE number - 1
           [] OTHER -> number

PomInit ==
    /\ InitIdle
    /\ inp \in PomConfigs
    /\ out = [at |-> "start", prompt |-> 0, number |-> 0, task_len |-> 0,
              break_len |-> 0, pomodoros |-> 0, phase |-> "task",
              pomodoro |-> 0, elapsed |-> 0, sleep_left |-> 0,
              ev_off |-> FALSE, state |-> "Idle", text |-> MessageText(""),
              by |-> "-", tasks |-> 0, breaks |-> 0, res |-> NoResult]

\* What no step of the pomodoro block changes.
PomFrame ==
    UNCHANGED <<pc, cmd_buf, pending, requests, requests_open, received,
                focused, been_err, retry_at, op_out, result, error_format,
                now, calls, flushes, delivered, returned, nfail, raced, rsend,
                inp>>

\* run, up to its first wait.
RunStart ==
    /\ out.at = "start"
    /\ out' = Idle(out, "-")
    /\ UNCHANGED <<inbox, events_open>>
    /\ PomFrame

\* wait_for_click(MouseButton::Left) in run: event() returns; a left click
\* starts read_params.
IdleEvent ==
    /\ out.at = "idle"
    /\ inbox[Blk] # <<>>
    /\ inbox' = [inbox EXCEPT ![Blk] = ChanRest(@)]
    /\ out' = IF ClickMatches(ChanFront(inbox[Blk]), "Left")
              THEN Prompt(ReadParams(out), 1, PromptDefault(1))
              ELSE out
    /\ UNCHANGED events_open
    /\ PomFrame

\* read_u64: event() returns. A left click ends the prompt with its number,
\* and the next prompt, or the call of run_pomodoro, follows; any other
\* event runs the loop again. Numbers are followed up to MaxWheelUp above
\* the number a prompt starts from.
PromptEvent ==
    /\ out.at = "prompt"
    /\ inbox[Blk] # <<>>
    /\ LET ev == ChanFront(inbox[Blk])
           read == CASE out.prompt = 1 -> [out EXCEPT !.task_len = out.number]
                     [] out.prompt = 2 -> [out EXCEPT !.break_len = out.number]
                     [] out.prompt = 3 -> [out EXCEPT !.pomodoros = out.number]
       IN /\ NextNumber(out.number, ev) <= PromptDefault(out.prompt) + MaxWheelUp
          /\ out' = IF ev.kind = "Click" /\ ev.button = "Left"
                    THEN IF out.prompt < 3
                         THEN Prompt(read, out.prompt + 1,
                                     PromptDefault(out.prompt + 1))
                         ELSE [read EXCEPT !.at = "call"]
                    ELSE Prompt(out, out.prompt, NextNumber(out.number, ev))
    /\ inbox' = [inbox EXCEPT ![Blk] = ChanRest(@)]
    /\ UNCHANGED events_open
    /\ PomFrame

\* run_pomodoro is called: the for loop starts, or ends at once. Runs are
\* followed for lengths up to MaxMinutes and up to MaxPomodoros pomodoros.
RunPomodoro ==
    /\ out.at = "call"
    /\ out.task_len <= MaxMinutes
    /\ out.break_len <= MaxMinutes
    /\ out.pomodoros <= MaxPomodoros
    /\ LET st == [out EXCEPT !.tasks = 0, !.breaks = 0, !.pomodoro = 0]
       IN out' = IF out.pomodoros = 0 THEN PomDone(st, "empty")
                 ELSE StartTask(inp, st)
    /\ UNCHANGED <<inbox, events_open>>
    /\ PomFrame

\* Half the time of a sleep passes while the block waits in select!.
PomTick ==
    /\ out.at = "countdown"
    /\ out.sleep_left > 0
    /\ out' = [out EXCEPT !.elapsed = @ + 1, !.sleep_left = @ - 1]
    /\ UNCHANGED <<inbox, events_open>>
    /\ PomFrame

\* select!: the sleep completes and the loop runs again.
PomSleep ==
    /\ out.at = "countdown"
    /\ out.sleep_left = 0
    /\ out' = Countdown(inp, out)
    /\ UNCHANGED <<inbox, events_open>>
    /\ PomFrame

\* select!: event() returns. A middle click returns from run_pomodoro, any
\* other click runs the loop again, an UpdateRequest disables the branch.
CountdownEvent ==
    /\ out.at = "countdown"
    /\ ~out.ev_off
    /\ inbox[Blk] # <<>>
    /\ inbox' = [inbox EXCEPT ![Blk] = ChanRest(@)]
    /\ LET ev == ChanFront(inbox[Blk])
       IN out' = IF ev.kind # "Click" THEN [out EXCEPT !.ev_off = TRUE]
                 ELSE IF EndsRun(ev) THEN PomDone(out, "middle")
                 ELSE Countdown(inp, out)
    /\ UNCHANGED events_open
    /\ PomFrame

\* spawn_shell_sync(&cmd).await completes.
CmdFinish(ok) ==
    /\ out.at = "cmd"
    /\ out' = IF ok THEN Proceed(inp, out, "cmd")
              ELSE PomFailed(out, "failed to run notify_cmd")
    /\ UNCHANGED <<inbox, events_open>>
    /\ PomFrame

\* spawn_shell(&cmd), then wait_for_click unless it failed.
Spawn(ok) ==
    /\ out.at = "spawn"
    /\ out' = IF ok THEN [out EXCEPT !.at = "message"]
              ELSE PomFailed(out, "failed to run notify_cmd")
    /\ UNCHANGED <<inbox, events_open>>
    /\ PomFrame

\* wait_for_click(MouseButton::Left) on a message: event() returns.
MessageEvent ==
    /\ out.at = "message"
    /\ inbox[Blk] # <<>>
    /\ inbox' = [inbox EXCEPT ![Blk] = ChanRest(@)]
    /\ out' = IF ClickMatches(ChanFront(inbox[Blk]), "Left")
              THEN Proceed(inp, out, "click")
              ELSE out
    /\ UNCHANGED events_open
    /\ PomFrame

\* event() finds the channel closed and empty and panics.
PomPanic ==
    /\ \/ out.at \in {"idle", "prompt", "message"}
       \/ out.at = "countdown" /\ ~out.ev_off
    /\ inbox[Blk] = <<>>
    /\ ~events_open[Blk]
    /\ out' = [out EXCEPT !.at = "panicked"]
    /\ UNCHANGED <<inbox, events_open>>
    /\ PomFrame

\* The renderer sends an event to the block.
PomDeliver(ev) ==
    /\ events_open[Blk]
    /\ Len(inbox[Blk]) < EventCap
    /\ inbox' = [inbox EXCEPT ![Blk] = ChanSend(@, ev)]
    /\ UNCHANGED <<out, events_open>>
    /\ PomFrame

PomodoroNext ==
    \/ RunStart
    \/ IdleEvent
    \/ PromptEvent
    \/ RunPomodoro
    \/ PomTick
    \/ PomSleep
    \/ CountdownEvent
    \/ \E ok \in BOOLEAN : CmdFinish(ok)
    \/ \E ok \in BOOLEAN : Spawn(ok)
    \/ MessageEvent
    \/ PomPanic
    \/ \E ev \in PomEvents : PomDeliver(ev)
    \/ CloseEvents(Blk)

PomodoroSpec == PomInit /\ [][PomodoroNext]_vars

\* ------------------------------------------------------------- properties
PreserveCmd == Cmd("Preserve", <<>>)
RestoreCmd == Cmd("Restore", <<>>)
ShowCmd == Cmd("Show", <<>>)
CriticalCmd == Cmd("SetState", <<"Critical">>)
TextCmd(t) == Cmd("SetText", <<t>>)
FullScreenCmd(v) == Cmd("SetFullScreen", <<BoolStr(v)>>)

\* The command each mutator call stands for.
Expected(call) ==
    CASE call.fn = "hide" -> Cmd("Hide", <<>>)
      [] call.fn = "show" -> Cmd("Show", <<>>)
      [] call.fn = "set_icon_raw" -> Cmd("SetIcon", call.args)
      [] call.fn = "set_state" -> Cmd("SetState", call.args)
      [] call.fn = "set_text" -> Cmd("SetText", call.args)
      [] call.fn = "set_texts" -> Cmd("SetTexts", call.args)
      [] call.fn = "set_values" -> Cmd("SetValues", call.args)
      [] call.fn = "set_format" -> Cmd("SetFormat", call.args)
      [] call.fn = "set_full_screen" -> Cmd("SetFullScreen", call.args)
      [] call.fn = "preserve" -> Cmd("Preserve", <<>>)
      [] call.fn = "restore" -> Cmd("Restore", <<>>)
ExpectedCmds(cs) == [i \in 1..Len(cs) |-> Expected(cs[i])]

\* The commands of the Request a suspended (or failed) flush of b took.
InFlight(b) ==
    IF pc[b] \in {"flush", "rec_flush", "rec_err"} THEN pending[b].cmds ELSE <<>>

\* Every command block b has buffered so far, in order: those the renderer
\* received, those in the channel, those being sent and those still buffered.
Issued(b) ==
    Flatten(CmdsOf(received \o requests, b)) \o InFlight(b) \o cmd_buf[b]

\* The commands recoverable itself appended (after the block's own calls).
ByWrapper(b) == SubSeq(Issued(b), Len(calls[b]) + 1, Len(Issued(b)))

InRecoverable(b) ==
    pc[b] \in {"attempt", "rec_flush", "select", "sleep", "rec_ok", "rec_err",
               "panicked"}
Degraded(b) == pc[b] \in {"rec_flush", "select", "sleep"}

LastN(s, n) == SubSeq(s, Len(s) - n + 1, Len(s))

\* The flush recoverable starts on entering Degraded: the only Request of
\* the wrapper that carries Show (a redraw after a click carries two
\* commands).
EntryFlush(b) ==
    /\ pc[b] = "rec_flush"
    /\ Len(pending[b].cmds) >= 4
    /\ LastN(pending[b].cmds, 4)[1] = ShowCmd

LeftClicks(b) == Count(returned[b], Click("Left"))

\* C1: within one call of recoverable Preserve is issued exactly once when f
\* has failed at least once and never when it has not, however many failures
\* and clicks there were, and it comes before every degraded-display command:
\* it is the first command the wrapper appends.
C1_PreserveOnce ==
    InRecoverable(Blk) =>
        /\ Count(Issued(Blk), PreserveCmd) = (IF nfail[Blk] >= 1 THEN 1 ELSE 0)
        /\ nfail[Blk] >= 1 =>
            /\ Len(ByWrapper(Blk)) >= 5
            /\ ByWrapper(Blk)[1] = PreserveCmd
            /\ ByWrapper(Blk)[2] = ShowCmd
            /\ ByWrapper(Blk)[3] = CriticalCmd
        /\ IsPrefix(ExpectedCmds(calls[Blk]), Issued(Blk))

\* C1 witness: f has failed twice, a left click was received, and one
\* Preserve was issued.
C1_Witness ==
    /\ nfail[Blk] = 2
    /\ LeftClicks(Blk) >= 1
    /\ Count(Issued(Blk), PreserveCmd) = 1

\* C2 as stated: every Request flushed on entering Degraded shows the
\* collapsed display: Show, Critical, the errorFormat-or-message text and
\* full-screen off, whatever clicks came before.
C2_EntryAlwaysCollapsed ==
    EntryFlush(Blk) =>
        LastN(pending[Blk].cmds, 4) =
            <<ShowCmd, CriticalCmd, TextCmd(CollapsedText(Blk)),
              FullScreenCmd(FALSE)>>

\* C2 amended: every Request flushed on entering Degraded makes the block
\* visible and Critical; it shows the collapsed text with full-screen off
\* after the first failure and whenever an even number of left clicks has
\* been received so far, and the raw text of the new error with full-screen
\* on when that number is odd.
C2_EntryDisplay ==
    EntryFlush(Blk) =>
        /\ LastN(pending[Blk].cmds, 4) =
            <<ShowCmd, CriticalCmd,
              TextCmd(IF LeftClicks(Blk) % 2 = 1
                      THEN op_out[Blk].val
                      ELSE UnwrapOrElse(error_format[Blk], Msg)),
              FullScreenCmd(LeftClicks(Blk) % 2 = 1)>>
        /\ nfail[Blk] = 1 => LeftClicks(Blk) = 0

\* C2 witness: a second failure is entered with the sub-state still focused.
C2_Witness ==
    /\ EntryFlush(Blk)
    /\ nfail[Blk] = 2
    /\ LeftClicks(Blk) = 1
    /\ error_format[Blk].some

\* A step in which the wrapper receives ev from event().
Receives(b, ev) ==
    /\ pc[b] = "select"
    /\ returned'[b] = Append(returned[b], ev)

\* C3: a left click received while degraded toggles the sub-state and starts
\* a flush of the redraw (raw error text and full-screen on when focused,
\* collapsed text and full-screen off otherwise); the deadline is failure
\* time + errorInterval and no step of a degraded period changes it.
C3_ToggleKeepsDeadline ==
    [][/\ Receives(Blk, Click("Left")) =>
            /\ focused'[Blk] = ~focused[Blk]
            /\ pc'[Blk] = "rec_flush"
            /\ pending'[Blk] =
                Request(Blk,
                        <<TextCmd(IF focused'[Blk]
                                  THEN op_out[Blk].val
                                  ELSE UnwrapOrElse(error_format[Blk], Msg)),
                          FullScreenCmd(focused'[Blk])>>)
            /\ cmd_buf'[Blk] = <<>>
       /\ (pc[Blk] = "attempt" /\ pc'[Blk] = "rec_flush") =>
            retry_at'[Blk] = now + ErrorInterval
       /\ (Degraded(Blk) /\ Degraded(Blk)') =>
            retry_at'[Blk] = retry_at[Blk]
      ]_vars

\* C3 witness: two left clicks were received in one degraded period and the
\* redraw of the second (collapsed again) is being flushed.
C3_Witness ==
    /\ nfail[Blk] = 1
    /\ returned[Blk] = <<Click("Left"), Click("Left")>>
    /\ pc[Blk] = "rec_flush"
    /\ ~focused[Blk]
    /\ retry_at[Blk] = ErrorInterval

\* C4 as stated: recoverable never returns an error.
C4_NeverReturnsError == pc[Blk] # "rec_err"

\* C4 amended: recoverable returns Ok only with a success of f, never
\* returns the error of f, and returns an error only when its flush failed
\* because the renderer's receiving end is gone.
C4_OnlySendError ==
    /\ pc[Blk] = "rec_err" =>
        /\ result[Blk] = Err(SendError)
        /\ ~requests_open
    /\ pc[Blk] = "rec_ok" =>
        /\ result[Blk].tag = "Ok"
        /\ op_out[Blk].tag = "Ok"
    /\ (InRecoverable(Blk) /\ pc[Blk] \notin {"rec_ok", "rec_err"}) =>
        result[Blk] = NoResult

\* C4 witness: the flush of a second failure failed and the error was returned.
C4_Witness ==
    /\ pc[Blk] = "rec_err"
    /\ nfail[Blk] = 2

\* C5: on success recoverable returns the value of f; on the first attempt
\* it has appended nothing and sent nothing; after a failure it has appended
\* SetFullScreen(false) then Restore, after all degraded-display commands,
\* and they are still in the buffer, not flushed.
C5_SuccessRestores ==
    pc[Blk] = "rec_ok" =>
        /\ result[Blk] = Ok(op_out[Blk].val)
        /\ IF nfail[Blk] = 0
           THEN /\ cmd_buf[Blk] = ExpectedCmds(calls[Blk])
                /\ CmdsOf(received \o requests, Blk) = <<>>
           ELSE /\ cmd_buf[Blk] = <<FullScreenCmd(FALSE), RestoreCmd>>
                /\ Count(Issued(Blk), RestoreCmd) = 1
                /\ LastN(Issued(Blk), 2) = cmd_buf[Blk]

\* C5 witness: success after a failure during which a left click focused
\* the block.
C5_Witness ==
    /\ pc[Blk] = "rec_ok"
    /\ nfail[Blk] = 1
    /\ focused[Blk]

RendererGone == ~requests_open \/ ~events_open[Blk]

Sent(b) ==
    CmdsOf(received \o requests, b)
        \o (IF pc[b] = "flush" THEN <<pending[b].cmds>> ELSE <<>>)

\* The command lists the flush calls of b stand for.
ExpectedFlushes(b) ==
    [i \in 1..Len(flushes[b]) |-> ExpectedCmds(flushes[b][i])]

\* C7: a mutator call appends its command and sends nothing; a flush that
\* succeeds adds exactly one Request to the channel, tagged with the block's
\* id and holding exactly the commands of the calls made since the previous
\* flush, in call order (none when there were none), and leaves the buffer
\* empty.
C7_FlushSendsBuffer ==
    [][\A b \in Blocks :
        /\ calls'[b] # calls[b] =>
            /\ requests' = requests
            /\ received' = received
            /\ pending' = pending
            /\ pc' = pc
            /\ cmd_buf'[b] = ExpectedCmds(SubSeq(calls'[b], SumLen(flushes[b]) + 1,
                                                Len(calls'[b])))
        /\ (pc[b] = "flush" /\ pc'[b] = "ready" /\ result'[b].tag = "Ok") =>
            /\ requests' =
                Append(requests,
                       Request(b, ExpectedCmds(flushes[b][Len(flushes[b])])))
            /\ received' = received
            /\ cmd_buf'[b] = <<>>
      ]_vars

\* C7 witness: a flush after two mutator calls has put its Request of two
\* commands in the channel, and a flush with no call before it follows.
C7_Witness ==
    /\ Len(flushes[Blk]) = 2
    /\ Len(flushes[Blk][1]) = 2
    /\ flushes[Blk][2] = <<>>
    /\ Len(received) = 1
    /\ Len(received[1].cmds) = 2
    /\ pc[Blk] = "flush"
    /\ pending[Blk].cmds = <<>>

\* C8: while no flush has failed, every command a block has buffered is in
\* exactly one place, in call order: in a Request already sent, in the
\* Request being sent, or in the buffer; and each Request holds exactly what
\* was buffered when its flush began, whatever was buffered afterwards.
C8_EachCommandOnce ==
    requests_open =>
        \A b \in Blocks :
            /\ Flatten(Sent(b)) \o cmd_buf[b] = ExpectedCmds(calls[b])
            /\ Sent(b) = ExpectedFlushes(b)

\* C8 witness: a command was buffered while the Request of an earlier flush
\* is still in the channel.
C8_Witness ==
    /\ requests_open
    /\ Len(requests) = 1
    /\ Len(requests[1].cmds) = 1
    /\ Len(cmd_buf[Blk]) = 1
    /\ cmd_buf[Blk] # requests[1].cmds

\* C9: the Requests the renderer has received from a block are the first
\* flushes of that block, in flush order, each with its commands in
\* buffering order; every Request carries the id of a block and is counted
\* for that block alone.
C9_PerBlockOrder ==
    /\ \A b \in Blocks : IsPrefix(CmdsOf(received, b), ExpectedFlushes(b))
    /\ \A i \in 1..Len(received) : received[i].block_id \in Blocks
    /\ Len(received) + Len(requests) + Cardinality({b \in Blocks : pc[b] = "flush"})
         = Len(flushes[1]) + Len(flushes[2])

\* C9 witness: the renderer has received two different Requests of one
\* block, the first with two commands, and another block has flushed too.
C9_Witness ==
    /\ Len(received) = 2
    /\ received[1].block_id = received[2].block_id
    /\ received[1].cmds # received[2].cmds
    /\ Len(received[1].cmds) = 2
    /\ \E b \in Blocks : b # received[1].block_id /\ Len(flushes[b]) = 1

\* Block b waits in event() on a channel that is closed and empty.
ClosedWait(b) ==
    /\ pc[b] \in {"event", "select"}
    /\ ~events_open[b]
    /\ inbox[b] = <<>>

\* C11 as stated: a block waiting in event() on a closed channel, the
\* degraded wait of the wrapper included, never goes on to its retry.
C11_NoRetryAfterClose ==
    [][ClosedWait(Blk) => pc'[Blk] # "attempt"]_vars

\* C11 amended: the next step of a block waiting in event() on a closed,
\* empty channel is a panic, which ends the block for good and returns
\* neither an error value nor an event; the one exception is the degraded
\* wait whose deadline has passed, where the timer branch may win and the
\* wrapper retries. Once an UpdateRequest has disabled the event branch the
\* wait is no longer in event(): it ends with the retry only.
C11_ClosedPanics ==
    [][/\ (ClosedWait(Blk) /\ pc'[Blk] # pc[Blk]) =>
            /\ returned' = returned
            /\ result' = result
            /\ \/ pc'[Blk] = "panicked"
               \/ /\ pc[Blk] = "select"
                  /\ now >= retry_at[Blk]
                  /\ pc'[Blk] = "attempt"
       /\ pc[Blk] = "panicked" => pc'[Blk] = "panicked"
       /\ pc[Blk] = "sleep" => pc'[Blk] \in {"sleep", "attempt"}
      ]_vars

\* C11 witness: the wrapper panicked in a degraded wait, before its deadline.
C11_Witness ==
    /\ pc[Blk] = "panicked"
    /\ nfail[Blk] = 1
    /\ now < retry_at[Blk]
    /\ returned[Blk] # <<>>

\* The renderer is suspended sending to block b, the outbound channel is
\* full and every block is suspended in flush.
Stalled(b) ==
    /\ rsend.to = b
    /\ Len(inbox[b]) = EventCap
    /\ Len(requests) = ChanCap
    /\ \A c \in Blocks : pc[c] = "flush"

\* C12: a block that stops calling event() can stall the whole system. While
\* the renderer is suspended in a send to a full event channel no Request is
\* received; while the outbound channel is full no block leaves flush; and
\* once the renderer is suspended, the outbound channel is full and every
\* block is in flush, nothing moves any more.
C12_StallIsDeadlock ==
    [][/\ rsend # NoSend => received' = received
       /\ Len(requests) = ChanCap =>
            \A c \in Blocks : pc[c] = "flush" => pc'[c] = "flush"
       /\ \A b \in Blocks : ~Stalled(b)
      ]_vars

\* C12 witness: the deadlock is reached with block Blk not polling, its
\* event channel full, and every flush issued still unsent or unreceived.
C12_Witness ==
    /\ Stalled(Blk)
    /\ returned[Blk] = <<>>
    /\ Len(received) + Len(requests) + Cardinality(Blocks)
         = Len(flushes[1]) + Len(flushes[2])

\* The three cases of a string v in a build with the given features.
IsCompiled(features, v) == v \in Compiled(features)
IsDisabled(features, v) == v \in GatedBlocks /\ Feature(v) \notin features
IsUnknown(v) == v \notin AlwaysBlocks \cup GatedBlocks

\* C13: parsing a block kind has three disjoint outcomes decided by exact
\* match: a compiled kind's name gives that kind, the name of a kind left
\* out of the build gives the 'has to be enabled at the compile time' error,
\* any other string gives the 'Unknown block' error.
C13_ThreeOutcomes ==
    out # <<>> =>
        LET f == inp.features
            v == inp.v
            r == out[1]
        IN /\ Cardinality({c \in {1, 2, 3} :
                             \/ c = 1 /\ IsCompiled(f, v)
                             \/ c = 2 /\ IsDisabled(f, v)
                             \/ c = 3 /\ IsUnknown(v)}) = 1
           /\ IsCompiled(f, v) => r = Ok(v)
           /\ IsDisabled(f, v) =>
                r = Err(<<"Block '", v,
                          "' has to be enabled at the compile time">>)
           /\ IsUnknown(v) => r = Err(<<"Unknown block '", v, "'">>)
           /\ r.tag = "Ok" => r.val \in Compiled(f)

\* C13 witness: maildir parsed in a build without its feature is reported as
\* disabled at compile time.
C13_Witness ==
    /\ out # <<>>
    /\ inp.v = "maildir"
    /\ inp.features = {"notmuch"}
    /\ out[1].tag = "Err"
    /\ out[1].val[3] = "' has to be enabled at the compile time"

\* C14: BlockType::run starts the entry point of its kind with the given
\* config and API; an error the entry point ends with is surfaced wrapped
\* with that kind and the id the API had when run was called, whatever the
\* id field holds by then; a success is surfaced unchanged.
C14_RunWraps ==
    out # <<>> =>
        LET r == out[1]
        IN /\ r.entry = inp.self
           /\ r.config = inp.config
           /\ r.id = inp.id
           /\ r.at = "done" =>
                /\ r.surfaced.tag = r.ended.tag
                /\ r.ended.tag = "Ok" => r.surfaced.val = r.ended.val
                /\ r.ended.tag = "Err" =>
                     /\ r.surfaced.val.error = r.ended.val
                     /\ r.surfaced.val.block = <<inp.self, inp.id>>

\* C14 witness: a pomodoro block created with id 1 wrote another id into its
\* API, ended with an error, and the error surfaced carries (pomodoro, 1).
C14_Witness ==
    /\ out # <<>>
    /\ out[1].at = "done"
    /\ inp.self = "pomodoro"
    /\ inp.id = 1
    /\ out[1].api_id = 2
    /\ out[1].ended.tag = "Err"
    /\ out[1].surfaced.tag = "Err"
    /\ out[1].surfaced.val.block = <<"pomodoro", 1>>

\* C15: set_icon("") appends SetIcon("") without a theme lookup and
\* succeeds; set_icon of a non-empty name the theme resolves appends
\* SetIcon(resolved value); set_icon of a non-empty name the theme does not
\* know returns an error and leaves the buffer unchanged.
C15_SetIcon ==
    [][Len(out') > Len(out) =>
         LET e == out'[Len(out')]
             buf == cmd_buf[Blk]
         IN /\ e.icon = "" =>
                 /\ e.res = Ok("()")
                 /\ e.lookups = <<>>
                 /\ cmd_buf'[Blk] = Append(buf, Cmd("SetIcon", <<"">>))
            /\ (e.icon # "" /\ e.icon \in DOMAIN inp) =>
                 /\ e.res = Ok("()")
                 /\ cmd_buf'[Blk] = Append(buf, Cmd("SetIcon", <<inp[e.icon]>>))
            /\ (e.icon # "" /\ e.icon \notin DOMAIN inp) =>
                 /\ e.res.tag = "Err"
                 /\ cmd_buf'[Blk] = buf
      ]_vars

\* C15 witness: with a theme that has a value for the empty name and none
\* for cpu, set_icon("cpu") failed and set_icon("") succeeded without a
\* lookup, and the buffer holds SetIcon("") alone.
C15_Witness ==
    /\ "" \in DOMAIN inp
    /\ "cpu" \notin DOMAIN inp
    /\ Len(out) = 2
    /\ out[1].icon = "cpu"
    /\ out[1].res.tag = "Err"
    /\ out[2].icon = ""
    /\ out[2].lookups = <<>>
    /\ cmd_buf[Blk] = <<Cmd("SetIcon", <<"">>)>>

\* The last connection call of block b has returned; its oneshot is still
\* open exactly when the call returned from its flush.
DbusReturned(b) == pc[b] = "ready" /\ out # <<>>

\* C16 as stated: a call whose flush failed and a call whose reply channel
\* was closed return the same 'failed to obtain connection' error.
C16_SameError ==
    (DbusReturned(Blk) /\ Last(out).state \in {"open", "closed"})
        => result[Blk] = Err(DbusError)

\* C16 amended: each call makes one oneshot channel, buffers one command
\* carrying it and flushes at once, leaving the buffer empty; a call whose
\* flush failed returns the flush's own error "Failed to send Request", a
\* call whose reply channel was closed returns "Failed to get dbus
\* connection", an answered call returns the answer, error or not; no call
\* is made again on its own.
C16_ConnectionResult ==
    /\ Len(out) = Len(calls[Blk])
    /\ pc[Blk] \in {"dbus_flush", "dbus_wait"} =>
         /\ cmd_buf[Blk] = <<>>
         /\ Len(pending[Blk].cmds) = 1
         /\ pending[Blk].cmds[1].op = Last(calls[Blk]).fn
         /\ pending[Blk].cmds[1].args = <<Last(out).name>>
    /\ DbusReturned(Blk) =>
         /\ cmd_buf[Blk] = <<>>
         /\ Last(out).state = "open" => result[Blk] = Err(SendError)
         /\ Last(out).state = "closed" => result[Blk] = Err(DbusError)
         /\ Last(out).state = "answered" => result[Blk] = Last(out).val

\* C16 witness: the reply channel of a first call was closed, and a second
\* call returned the flush's error because the renderer was gone.
C16_Witness ==
    /\ Len(out) = 2
    /\ pc[Blk] = "ready"
    /\ out[1].state = "closed"
    /\ out[2].state = "open"
    /\ result[Blk] = Err(SendError)

\* The value the shared config holds for a recognized field.
ConfigField(cfg, field) ==
    CASE field = "block" -> Str(cfg.block)
      [] field = "click" -> cfg.click
      [] field = "signal" -> cfg.signal
      [] field = "theme_overrides" -> cfg.theme_overrides
      [] field = "icons_format" -> cfg.icons_format
      [] field = "error_interval" -> Int(cfg.error_interval)
      [] field = "error_format" -> cfg.error_format

\* The value of the shared config that a present entry v of field gives.
FromEntry(field, v) ==
    IF field \in {"block", "click", "error_interval"} THEN v ELSE Some(v)

\* C17: CommonConfig::new on a table removes exactly the recognized fields
\* that are present and moves each to the shared config; every other field
\* stays in the document unchanged and is not part of the shared config;
\* block = cpu with error_interval = 10 gives error_interval = 10.
C17_MovesRecognized ==
    (out # <<>> /\ inp.is_table) =>
        LET e == inp.entries
            r == out[1]
        IN /\ r.from.is_table
           /\ DOMAIN r.from.entries = DOMAIN e \ Recognized
           /\ \A f \in DOMAIN r.from.entries : r.from.entries[f] = e[f]
           /\ DOMAIN r.common = DOMAIN e \cap Recognized
           /\ \A f \in DOMAIN r.common : r.common[f] = e[f]
           /\ r.res.tag = "Ok" =>
                \A f \in DOMAIN r.common :
                    ConfigField(r.res.val, f) = FromEntry(f, e[f])
           /\ ({"block", "error_interval"} \subseteq DOMAIN e
                 /\ e["block"] = Str("cpu") /\ e["error_interval"] = Int(10)) =>
                /\ r.res.tag = "Ok"
                /\ r.res.val.error_interval = 10

\* C17 witness: block = cpu, error_interval = 10 and two unrelated fields
\* gave error_interval = 10 and left the two unrelated fields alone.
C17_Witness ==
    /\ out # <<>>
    /\ inp = TableOf(Str("cpu"), Int(10), Unrelated)
    /\ out[1].res.tag = "Ok"
    /\ out[1].res.val.error_interval = 10
    /\ out[1].from = Table([f \in Unrelated |-> inp.entries[f]])

\* The entries a document has are of the right type and name a block.
WellFormed(doc) ==
    /\ doc.is_table
    /\ "block" \in DOMAIN doc.entries => doc.entries["block"] = Str("cpu")
    /\ "error_interval" \in DOMAIN doc.entries =>
         doc.entries["error_interval"].ty = "integer"

\* What a missing recognized field is in the shared config.
DefaultOf(field) ==
    CASE field = "error_interval" -> Int(5)
      [] field = "click" -> ClickHandlerDefault
      [] OTHER -> None

\* C18 as stated: whichever recognized fields are missing, extraction
\* succeeds and each missing field has its default.
C18_AnySubsetMissing ==
    (out # <<>> /\ WellFormed(inp)) =>
        /\ out[1].res.tag = "Ok"
        /\ \A f \in Recognized \ DOMAIN inp.entries :
               ConfigField(out[1].res.val, f) = DefaultOf(f)

\* C18 amended: whichever recognized fields other than block are missing,
\* extraction succeeds and each missing field has its default,
\* error_interval 5 and the others absent or empty; when block is missing
\* extraction fails with a missing-field error.
C18_MissingButBlock ==
    (out # <<>> /\ WellFormed(inp)) =>
        IF "block" \in DOMAIN inp.entries
        THEN /\ out[1].res.tag = "Ok"
             /\ \A f \in Recognized \ DOMAIN inp.entries :
                    ConfigField(out[1].res.val, f) = DefaultOf(f)
        ELSE out[1].res = Err(<<"missing field ", "block">>)

\* C18 witness: a document with block as its one recognized field gave
\* error_interval 5 and no signal and no error_format.
C18_Witness ==
    /\ out # <<>>
    /\ inp = TableOf(Str("cpu"), Absent, {"path"})
    /\ out[1].res.tag = "Ok"
    /\ out[1].res.val.error_interval = 5
    /\ out[1].res.val.signal = None
    /\ out[1].res.val.error_format = None

\* C19 as stated: a click of another button than left received while
\* degraded changes neither the sub-state nor the deadline and starts no
\* flush.
C19_OtherClickNoRequest ==
    [][Receives(Blk, Click("Middle")) =>
         /\ focused'[Blk] = focused[Blk]
         /\ retry_at'[Blk] = retry_at[Blk]
         /\ pc'[Blk] # "rec_flush"
         /\ pending'[Blk] = pending[Blk]
      ]_vars

\* C19 amended: a click of another button than left received while degraded
\* changes neither the sub-state nor the deadline, but it ends the wait like
\* any click: the display is drawn again as it was and flushed, one more
\* Request with the same text and full-screen commands.
C19_OtherClickRedraws ==
    [][Receives(Blk, Click("Middle")) =>
         /\ focused'[Blk] = focused[Blk]
         /\ retry_at'[Blk] = retry_at[Blk]
         /\ been_err'[Blk] = been_err[Blk]
         /\ pc'[Blk] = "rec_flush"
         /\ pending'[Blk] =
              Request(Blk,
                      <<TextCmd(IF focused[Blk]
                                THEN op_out[Blk].val
                                ELSE UnwrapOrElse(error_format[Blk], Msg)),
                        FullScreenCmd(focused[Blk])>>)
         /\ pending'[Blk].cmds = LastN(pending[Blk].cmds, 2)
         /\ cmd_buf'[Blk] = <<>>
      ]_vars

\* C19 witness: the one event received in a degraded period is a middle
\* click, and the Request of its redraw has been sent after the Request of
\* the entry.
C19_Witness ==
    /\ pc[Blk] = "select"
    /\ nfail[Blk] = 1
    /\ returned[Blk] = <<Click("Middle")>>
    /\ ~focused[Blk]
    /\ Len(CmdsOf(received \o requests, Blk)) = 2

\* The pomodoro block left its wait for the next phase, or for the end of
\* the run.
Proceeded ==
    /\ out'.at \in {"countdown", "cmd", "spawn", "message", "idle"}
    /\ \/ out'.at = "idle"
       \/ <<out'.phase, out'.pomodoro>> # <<out.phase, out.pomodoro>>

\* C20: on a task or break message the pomodoro block awaits the command
\* exactly when notify_cmd is set and blocking_cmd is true, and then goes on
\* when the command finishes, taking no event; in every other case it waits
\* for events and goes on only when it takes a left click: another button or
\* an update request leaves it where it is.
C20_MessageWait ==
    [][/\ out.at = "cmd" =>
            /\ inp.notify_cmd.some /\ inp.blocking_cmd
            /\ out' # out =>
                 /\ Proceeded \/ out'.at = "failed"
                 /\ inbox' = inbox
       /\ out.at = "message" =>
            /\ ~(inp.notify_cmd.some /\ inp.blocking_cmd)
            /\ out' # out =>
                 \/ out'.at = "panicked"
                 \/ /\ Proceeded
                    /\ inbox[Blk] # <<>>
                    /\ Head(inbox[Blk]) = Click("Left")
                    /\ inbox'[Blk] = Tail(inbox[Blk])
       /\ out.at \in {"cmd", "message"} =>
            out.text = MessageText(IF out.phase = "task" THEN inp.message
                                   ELSE inp.break_message)
      ]_vars

\* C20 witness: with a blocking notify_cmd the break countdown was entered
\* because the command finished.
C20_Witness ==
    /\ inp.notify_cmd.some
    /\ inp.blocking_cmd
    /\ out.at = "countdown"
    /\ out.phase = "break"
    /\ out.by = "cmd"

\* C21: an UpdateRequest the wrapper receives in a degraded wait is taken
\* out of the channel and dropped: no retry, no redraw, no Request, no change
\* of sub-state or deadline. For the rest of that wait the wrapper reads no
\* event: what arrives stays queued in order, the sub-state is kept, and the
\* wait ends only with the retry, at or after the deadline.
C21_UpdateRequestDisables ==
    [][/\ Receives(Blk, UpdateRequest) =>
            /\ pc'[Blk] = "sleep"
            /\ inbox[Blk] # <<>>
            /\ inbox'[Blk] = Tail(inbox[Blk])
            /\ UNCHANGED <<focused, been_err, retry_at, cmd_buf, pending,
                           requests, received, op_out>>
       /\ pc[Blk] = "sleep" =>
            /\ pc'[Blk] \in {"sleep", "attempt"}
            /\ pc'[Blk] = "attempt" => now >= retry_at[Blk]
            /\ IsPrefix(inbox[Blk], inbox'[Blk])
            /\ UNCHANGED <<focused, been_err, retry_at, cmd_buf, pending,
                           returned>>
      ]_vars

\* C21 witness: the wrapper took an UpdateRequest, and a left click that
\* arrived afterwards is queued, before the deadline, the sub-state still
\* collapsed.
C21_Witness ==
    /\ pc[Blk] = "sleep"
    /\ returned[Blk] = <<UpdateRequest>>
    /\ inbox[Blk] = <<Click("Left")>>
    /\ ~focused[Blk]
    /\ now < retry_at[Blk]

\* C22: a flush that fails because the renderer's receiver is gone returns
\* the error as a value, puts nothing in the channel and leaves the buffer
\* empty; the commands it took are gone: the Request of every later flush
\* holds the commands buffered since the flush before it and no others.
C22_FailedFlushDiscards ==
    [][\A b \in Blocks :
        /\ (pc[b] = "flush" /\ pc'[b] # "flush") =>
             /\ pc'[b] = "ready"
             /\ result'[b].tag \in {"Ok", "Err"}
             /\ result'[b].tag = "Err" <=> ~requests_open
        /\ (pc[b] = "flush" /\ pc'[b] # "flush" /\ result'[b].tag = "Err") =>
             /\ result'[b] = Err(SendError)
             /\ cmd_buf'[b] = <<>>
             /\ requests' = requests
             /\ received' = received
        /\ (pc[b] = "ready" /\ pc'[b] = "flush") =>
             /\ Len(flushes'[b]) = Len(flushes[b]) + 1
             /\ pending'[b] =
                  Request(b, ExpectedCmds(flushes'[b][Len(flushes'[b])]))
             /\ SumLen(flushes'[b]) = Len(calls[b])
      ]_vars

\* C22 witness: a flush of a non-empty buffer failed, one more command was
\* buffered, and the next flush is sending that command alone.
C22_Witness ==
    /\ ~requests_open
    /\ pc[Blk] = "flush"
    /\ result[Blk] = Err(SendError)
    /\ Len(flushes[Blk]) = 2
    /\ Len(flushes[Blk][1]) = 1
    /\ Len(pending[Blk].cmds) = 1
    /\ pending[Blk].cmds = ExpectedCmds(flushes[Blk][2])
    /\ requests = <<>>
    /\ received = <<>>

\* The pomodoro block is inside run_pomodoro.
InRun == out.at \in {"countdown", "cmd", "spawn", "message"}

\* The run before the idle display ended by itself, not by a middle click.
RanToEnd == out.at = "idle" /\ out.by \in {"click", "cmd", "empty"}

\* The counts of the timers a run has started, the text of a task timer
\* and the idle display.
RunCounts ==
    /\ InRun =>
          /\ out.pomodoro < out.pomodoros
          /\ out.tasks = out.pomodoro + 1
          /\ out.breaks = IF out.phase = "task" THEN out.pomodoro
                          ELSE out.pomodoro + 1
          /\ out.breaks <= out.pomodoros - 1
    /\ out.at = "countdown" /\ out.phase = "task" =>
          /\ out.text.bars = out.pomodoro
          /\ out.text.msg = ""
    /\ out.at = "idle" =>
          /\ out.state = "Idle"
          /\ out.text = MessageText("")
    /\ RanToEnd =>
          /\ out.tasks = out.pomodoros
          /\ out.breaks = IF out.pomodoros = 0 THEN 0
                          ELSE out.pomodoros - 1

\* A step starts at most one timer, a task timer when as many breaks as
\* tasks were started, a break timer when one more task than breaks was.
RunAlternates ==
    \/ out'.tasks = out.tasks /\ out'.breaks = out.breaks
    \/ out'.tasks = 0 /\ out'.breaks = 0 /\ ~InRun
    \/ /\ out'.tasks = out.tasks + 1
       /\ out'.breaks = out.breaks
       /\ out.tasks = out.breaks
    \/ /\ out'.breaks = out.breaks + 1
       /\ out'.tasks = out.tasks
       /\ out.tasks = out.breaks + 1

\* The idle display is left only by taking a left click, for the prompts.
IdleUntilLeftClick ==
    out.at = "idle" /\ out' # out =>
        \/ out'.at = "panicked"
        \/ /\ out'.at = "prompt"
           /\ inbox[Blk] # <<>>
           /\ Head(inbox[Blk]) = Click("Left")
           /\ inbox'[Blk] = Tail(inbox[Blk])

Takes(ev) ==
    /\ inbox[Blk] # <<>>
    /\ Head(inbox[Blk]) = ev
    /\ inbox'[Blk] = Tail(inbox[Blk])

\* The time of the current timer is up.
TimeUp ==
    (SleepSecs * out.elapsed) \div 2 >=
        60 * (IF out.phase = "task" THEN out.task_len ELSE out.break_len)

====
